---- MODULE Spec2Model ----
(***************************************************************************)
(* A model of adrf: the asynchronous serializer layer (adrf/serializers.py)*)
(* and the asynchronous view mixins (adrf/mixins.py).                      *)
(*                                                                         *)
(* Three specifications share the module:                                  *)
(*   Spec       the view mixins serving requests against the model table;  *)
(*   SpecValid  is_valid and the data property called on one serializer;   *)
(*   SpecSave   asave, acreate and aupdate called on one serializer.       *)
(*                                                                         *)
(* Python dicts are functions from a set of keys.  A coroutine runs        *)
(* without interruption up to the next await that really suspends, so one  *)
(* action is one such segment of a handler.                                *)
(***************************************************************************)
EXTENDS Integers, Sequences, FiniteSets, TLC

\* ---------------------------------------------------------------- bounds
MaxId == 3          \* primary keys the table can hand out
InitRows == 2       \* rows present before the first request
NTasks == 2         \* concurrent request handlers / callers
MaxCalls == 3       \* is_valid / data calls made on one serializer

Ids == 1..MaxId
Tasks == 1..NTasks

\* ------------------------------------------------------------ test model
\* tests/test_app/models.py: Animal(name, sound); id is the read-only key.
ScalarFields == {"name", "sound"}
\* Two to-many relations and an inline (nested) related resource, which
\* acreate / aupdate treat specially.
ManyFields == {"friends", "tags"}
NestedFields == {"profile"}
\* A serializer field with no counterpart on the model class.
UnknownFields == {"colour"}

FieldValues(f) ==
    IF f = "name" THEN {"Dog", "Wolf"}
    ELSE IF f = "sound" THEN {"Woof", "Howl"}
    ELSE IF f \in ManyFields THEN {{}, {1}, {1, 2}, {InitRows + 1}}
    ELSE {"x"}

\* ----------------------------------------------------------------- dicts
EmptyDict == [k \in {} |-> "x"]

DictPut(d, key, value) ==
    [k \in (DOMAIN d) \cup {key} |-> IF k = key THEN value ELSE d[k]]

\* Every dict whose keys are among `keys`, each key with one of its values.
RECURSIVE Dicts(_)
Dicts(keys) ==
    IF keys = {} THEN {EmptyDict}
    ELSE LET key == CHOOSE k \in keys : TRUE
             rest == Dicts(keys \ {key})
         IN  rest \cup {DictPut(d, key, v) : d \in rest, v \in FieldValues(key)}

WellTyped(d) == \A k \in DOMAIN d : d[k] \in FieldValues(k)

\* {**a, **b}: b's entries win.
DictMerge(a, b) ==
    [k \in (DOMAIN a) \cup (DOMAIN b) |-> IF k \in DOMAIN b THEN b[k] ELSE a[k]]

Restrict(d, keys) == [k \in (DOMAIN d) \cap keys |-> d[k]]

\* ------------------------------------------------------- model instances
\* A Python model instance: None, or an object with a pk and attributes.
NoneInstance == [isNone |-> TRUE, pk |-> 0, attrs |-> EmptyDict]

Instance(pk, attrs) == [isNone |-> FALSE, pk |-> pk, attrs |-> attrs]

\* ------------------------------------------------------------ serializer
\* BaseSerializer.__init__: instance, initial_data (only when data= is
\* passed), partial; no _validated_data, _errors or _data attribute yet.
NewSerializer(instance, hasData, data, partial) ==
    [instance |-> instance,
     has_initial |-> hasData, initial_data |-> data,
     partial |-> partial,
     has_vd |-> FALSE, vd |-> EmptyDict,
     has_errors |-> FALSE, errors |-> EmptyDict,
     has_data |-> FALSE, data |-> EmptyDict]

\* ----------------------------------------------------- method resolution
\* class ModelSerializer(BaseAsyncSerializerMixin, DRFModelSerializer):
\* attribute lookup on self walks the classes in this order.
MRO == <<"ModelSerializer", "BaseAsyncSerializerMixin", "DRFModelSerializer">>

\* The methods each class of the MRO defines itself.
ClassMethods(cls) ==
    IF cls = "ModelSerializer" THEN {"acreate", "asave", "aupdate"}
    ELSE IF cls = "BaseAsyncSerializerMixin"
        THEN {"is_valid", "data", "run_validation"}
    ELSE {"is_valid", "data", "run_validation", "to_representation",
          "get_initial", "validated_data", "errors"}

\* The `async def` methods of serializers.py; the framework's are all sync.
IsCoroutineFunction(cls, method) ==
    \/ cls = "BaseAsyncSerializerMixin" /\ method \in {"is_valid", "run_validation"}
    \/ cls = "ModelSerializer" /\ method \in {"acreate", "asave", "aupdate"}

\* self.<method>: the first class of the MRO that defines it.
Resolve(method) ==
    LET idx == {i \in 1..Len(MRO) : method \in ClassMethods(MRO[i])}
        first == CHOOSE i \in idx : \A j \in idx : i <= j
    IN  MRO[first]

\* ----------------------------------------------------------- validation
\* The framework's synchronous run_validation on AnimalSerializer
\* (fields id [read-only], name, sound): a field absent from the input is
\* an error unless the serializer is partial.
MissingFields(s, data) ==
    IF s.partial THEN {} ELSE ScalarFields \ DOMAIN data

FrameworkRunValidation(s, data) ==
    LET missing == MissingFields(s, data)
    IN  IF missing # {}
        THEN [kind |-> "ValidationError",
              value |-> EmptyDict,
              detail |-> [f \in missing |-> "This field is required."],
              fw |-> 1]
        ELSE [kind |-> "ok",
              value |-> Restrict(data, ScalarFields),
              detail |-> EmptyDict,
              fw |-> 1]

\* BaseAsyncSerializerMixin.run_validation:
\*     return await sync_to_async(self.run_validation)(data)
\* self.run_validation is looked up on self, so it is whatever the MRO
\* resolves; sync_to_async refuses a coroutine function with a TypeError
\* before anything runs, and otherwise runs the callable in a worker thread.
run_validation(s, data) ==
    LET owner == Resolve("run_validation")
    IN  IF IsCoroutineFunction(owner, "run_validation")
        THEN [kind |-> "TypeError", value |-> EmptyDict,
              detail |-> EmptyDict, fw |-> 0]
        ELSE FrameworkRunValidation(s, data)

\* The framework's to_representation of a model instance / of a mapping.
Representation(inst) ==
    IF inst.isNone THEN EmptyDict
    ELSE DictMerge(Restrict(inst.attrs, ScalarFields), [k \in {"id"} |-> inst.pk])

\* `await self.to_representation(x)`: awaiting the result of a sync method
\* (a dict) is a TypeError; only a coroutine method can be awaited.
AwaitToRepresentation(value) ==
    IF IsCoroutineFunction(Resolve("to_representation"), "to_representation")
    THEN [kind |-> "ok", value |-> value]
    ELSE [kind |-> "TypeError", value |-> EmptyDict]

\* The framework's get_initial(): the writable fields found in initial_data.
get_initial(s) ==
    IF s.has_initial THEN Restrict(s.initial_data, ScalarFields) ELSE EmptyDict

Outcome(s, exc, detail, ret, entered, fw, cached) ==
    [ser |-> s, exc |-> exc, detail |-> detail, ret |-> ret,
     entered |-> entered, fw |-> fw, cached |-> cached]

\* BaseAsyncSerializerMixin.is_valid, lines 35-43: the representation is
\* computed once, then the boolean result.
is_valid_data(s, entered, fw, cached) ==
    LET noErrors == ~s.has_errors \/ DOMAIN s.errors = {}
        rep == IF ~s.instance.isNone /\ noErrors
                   THEN AwaitToRepresentation(Representation(s.instance))
               ELSE IF s.has_vd /\ noErrors
                   THEN AwaitToRepresentation(s.vd)
               ELSE [kind |-> "ok", value |-> get_initial(s)]
    IN  IF s.has_data
        THEN Outcome(s, "none", EmptyDict, DOMAIN s.errors = {}, entered, fw, cached)
        ELSE IF rep.kind = "TypeError"
        THEN Outcome(s, "TypeError", EmptyDict, FALSE, entered, fw, cached)
        ELSE Outcome([s EXCEPT !.has_data = TRUE, !.data = rep.value],
                     "none", EmptyDict, DOMAIN s.errors = {}, entered, fw, cached)

\* BaseAsyncSerializerMixin.is_valid, lines 32-33, then the rest.
is_valid_raise(s, raise_exception, entered, fw, cached) ==
    IF DOMAIN s.errors # {} /\ raise_exception
    THEN Outcome(s, "ValidationError", s.errors, FALSE, entered, fw, cached)
    ELSE is_valid_data(s, entered, fw, cached)

\* BaseAsyncSerializerMixin.is_valid.  Only ValidationError is caught at
\* line 26; any other exception of run_validation leaves the serializer
\* without _validated_data and _errors and propagates.
is_valid(s, raise_exception) ==
    IF ~s.has_initial
    THEN Outcome(s, "AssertionError", EmptyDict, FALSE, 0, 0, FALSE)
    ELSE IF s.has_vd
    THEN is_valid_raise(s, raise_exception, 0, 0, TRUE)
    ELSE LET v == run_validation(s, s.initial_data)
         IN  IF v.kind = "TypeError"
             THEN Outcome(s, "TypeError", EmptyDict, FALSE, 1, v.fw, FALSE)
             ELSE IF v.kind = "ValidationError"
             THEN is_valid_raise([s EXCEPT !.has_vd = TRUE, !.vd = EmptyDict,
                                           !.has_errors = TRUE, !.errors = v.detail],
                                 raise_exception, 1, v.fw, FALSE)
             ELSE is_valid_raise([s EXCEPT !.has_vd = TRUE, !.vd = v.value,
                                           !.has_errors = TRUE, !.errors = EmptyDict],
                                 raise_exception, 1, v.fw, FALSE)

\* BaseAsyncSerializerMixin.data (property): the usage error, else
\* self._data, an AttributeError when is_valid never stored it.
data_property(s) ==
    IF s.has_initial /\ ~s.has_vd
    THEN [exc |-> "AssertionError", value |-> EmptyDict]
    ELSE IF ~s.has_data
    THEN [exc |-> "AttributeError", value |-> EmptyDict]
    ELSE [exc |-> "none", value |-> s.data]

\* The framework's validated_data property, which asave reads.
validated_data_property(s) ==
    IF ~s.has_vd
    THEN [exc |-> "AssertionError", value |-> EmptyDict]
    ELSE [exc |-> "none", value |-> s.vd]

\* ------------------------------------------------------------- the table
\* A CharField left out of create() takes the field default, the empty
\* string.
DefaultAttrs == [f \in ScalarFields |-> ""]

NoRow == [exists |-> FALSE, attrs |-> DefaultAttrs]

Row(attrs) == [exists |-> TRUE, attrs |-> attrs]

\* tests/test_viewsets.py setUp: Animal(name='Dog', sound='Woof').
InitAttrs(i) ==
    IF i = 1 THEN [f \in ScalarFields |-> IF f = "name" THEN "Dog" ELSE "Woof"]
    ELSE [f \in ScalarFields |-> IF f = "name" THEN "Wolf" ELSE "Howl"]

InitDb == [i \in Ids |-> IF i <= InitRows THEN Row(InitAttrs(i)) ELSE NoRow]

InitRel == [i \in Ids |-> [f \in ManyFields |-> {}]]

\* The model instance loaded from row pk.
Loaded(table, pk) == Instance(pk, table[pk].attrs)

VARIABLES
    db,             \* the model table: pk -> row
    rel,            \* the to-many relations: pk -> field -> set of pks
    nextId,         \* the next primary key the table hands out
    req,            \* Spec: each handler's request in progress
    deleted,        \* Spec: pks whose destroy request was answered 204
    vser,           \* SpecValid: the serializer under validation
    vlog,           \* SpecValid: the calls made on it, in order
    nRunValidation, \* SpecValid: times is_valid entered run_validation
    nFramework,     \* SpecValid: times the framework routine was executed
    sser,           \* SpecSave: the serializer asave is called on
    scls,           \* SpecSave: its class (the base class or an override)
    skw,            \* SpecSave: asave's keyword arguments
    spre,           \* SpecSave: serializer.instance when asave was called
    spc,            \* SpecSave: where the asave call stands
    sdata,          \* SpecSave: the merged validated_data of the call
    sargs,          \* SpecSave: the keywords given to the creation call
    sinst,          \* SpecSave: the local `instance` of acreate / aupdate
    spending,       \* SpecSave: to-many updates issued and not yet completed
    sorder,         \* SpecSave: the to-many updates completed, in order
    safter,         \* SpecSave: to-many updates applied after asave ended
    sdispatch,      \* SpecSave: calls of acreate / aupdate made by asave
    sresult,        \* SpecSave: what the dispatched call handed back
    sexc,           \* SpecSave: the exception asave ended with
    sraisedAt,      \* SpecSave: the step that raised it
    sret            \* SpecSave: asave's return value

viewVars == <<req, deleted>>
validVars == <<vser, vlog, nRunValidation, nFramework>>
saveVars == <<sser, scls, skw, spre, spc, sdata, sargs, sinst, spending,
              sorder, safter, sdispatch, sresult, sexc, sraisedAt, sret>>
tableVars == <<db, rel, nextId>>
vars == <<db, rel, nextId, req, deleted, vser, vlog, nRunValidation,
          nFramework, sser, scls, skw, spre, spc, sdata, sargs, sinst,
          spending, sorder, safter, sdispatch, sresult, sexc, sraisedAt,
          sret>>

\* ------------------------------------------------------------------ save
\* asave, line 142: the commit keyword is refused.
CommitRefused(kwargs) == "commit" \in DOMAIN kwargs

\* asave, line 151: {**self.validated_data, **kwargs}.
MergeValidatedWrongOrder(vd, kwargs) == DictMerge(kwargs, vd)

MergeValidated(vd, kwargs) == DictMerge(vd, kwargs)

\* asave, line 153: update when the serializer has an instance, else create.
DispatchTarget(s) == IF ~s.instance.isNone THEN "aupdate" ELSE "acreate"

\* asave, lines 155 and 160: assert self.instance is not None.
InstanceAssertSkipped(inst) == FALSE

InstanceAssertFails(inst) == inst.isNone

\* The framework's raise_errors_on_nested_writes: inline data of a related
\* resource among the validated data is refused with an AssertionError.
NestedWriteIgnored(validated_data) == FALSE

NestedWrite(validated_data) == (DOMAIN validated_data) \cap NestedFields # {}

\* acreate, lines 106-109: the to-many relations popped from validated_data
\* and what is left for the creation call.
ManyToMany(validated_data) == Restrict(validated_data, ManyFields)

CreateArgumentsKeepMany(validated_data) == validated_data

CreateArguments(validated_data) ==
    Restrict(validated_data, (DOMAIN validated_data) \ ManyFields)

\* ModelClass(**kwargs): a keyword that is no field of the model is a
\* TypeError.
CreateTypeError(arguments) == ~((DOMAIN arguments) \subseteq ScalarFields)

\* aupdate, lines 175-179: the attributes set on the instance.
SetAttributes(inst, validated_data) ==
    [inst EXCEPT !.attrs = DictMerge(inst.attrs,
        Restrict(validated_data, (DOMAIN validated_data) \ ManyFields))]

\* aupdate, line 181: instance.asave() writes the instance's field values
\* to its row.
SavedRowStale(inst) == Row(DefaultAttrs)

SavedRow(inst) == Row(Restrict(inst.attrs, ScalarFields))

\* aupdate, line 186: each aset coroutine is built with the value of its own
\* field.
AsetValueShared(validated_data, f) ==
    validated_data[CHOOSE g \in DOMAIN ManyToMany(validated_data) : TRUE]

AsetValue(validated_data, f) == validated_data[f]

\* relation.aset(value): the rows named by value are linked in one
\* transaction; a value naming a row that does not exist breaks the foreign
\* key of the link table, the transaction is rolled back and aset raises
\* IntegrityError.
AsetFails(table, value) == \E pk \in value : ~table[pk].exists

\* aupdate, line 187: the gather has raised while awaitables it started may
\* still be running.
GatherAbandoned(pc, raisedAt) == pc = "raised" /\ raisedAt = "aset"

\* What self.acreate / self.aupdate hands back: the base methods return the
\* instance; an override that breaks the contract returns None.
SerializerClasses == {"ModelSerializer", "CreateReturnsNone", "UpdateReturnsNone"}

Returned(cls, method, inst) ==
    IF \/ cls = "CreateReturnsNone" /\ method = "acreate"
       \/ cls = "UpdateReturnsNone" /\ method = "aupdate"
    THEN NoneInstance
    ELSE inst

\* ------------------------------------------------- SpecSave: asave steps
NoDispatch == [acreate |-> 0, aupdate |-> 0]

\* asave ends with an exception raised at step `at`.
SaveRaise(exc, at) ==
    /\ spc' = "raised"
    /\ sexc' = exc
    /\ sraisedAt' = at
    /\ sret' = NoneInstance

\* asave, lines 154 and 159: self.instance is assigned the result of the
\* dispatched call, whatever it is, before the assert looks at it.
AssignedInstanceIfNotNone(previous, result) ==
    IF result.isNone THEN previous ELSE result

AssignedInstance(previous, result) == result

\* asave, lines 154-164: self.instance = <result>; assert; return.
SaveFinish(result) ==
    /\ sser' = [sser EXCEPT !.instance = AssignedInstance(sser.instance, result)]
    /\ sresult' = IF result.isNone THEN "none" ELSE "instance"
    /\ IF InstanceAssertFails(result)
       THEN SaveRaise("AssertionError", "postcondition")
       ELSE /\ spc' = "returned"
            /\ sret' = result
            /\ UNCHANGED <<sexc, sraisedAt>>

\* asave up to the first suspension: the commit check, the merge, the
\* dispatch, and the synchronous head of acreate (lines 98-109, up to the
\* await of the creation call) or of aupdate (lines 167-179, up to the
\* await of instance.asave()).
AsaveCall ==
    /\ spc = "call"
    /\ LET vd == validated_data_property(sser)
           merged == MergeValidated(vd.value, skw)
           target == DispatchTarget(sser)
       IN  IF CommitRefused(skw) \/ vd.exc # "none"
           THEN /\ SaveRaise("AssertionError", "precondition")
                /\ UNCHANGED <<sser, sdata, sinst, sdispatch>>
           ELSE /\ sdata' = merged
                /\ sdispatch' = [sdispatch EXCEPT ![target] = @ + 1]
                /\ IF NestedWrite(merged)
                   THEN /\ SaveRaise("AssertionError", "nested_write")
                        /\ UNCHANGED <<sser, sinst>>
                   ELSE IF target = "aupdate"
                   THEN /\ sser' = [sser EXCEPT
                               !.instance = SetAttributes(sser.instance, merged)]
                        /\ sinst' = SetAttributes(sser.instance, merged)
                        /\ spc' = "saving"
                        /\ UNCHANGED <<sexc, sraisedAt, sret>>
                   ELSE /\ spc' = "creating"
                        /\ UNCHANGED <<sser, sinst, sexc, sraisedAt, sret>>
    /\ UNCHANGED <<scls, skw, spre, sargs, spending, sorder, safter, sresult>>
    /\ UNCHANGED <<tableVars, viewVars, validVars>>

\* acreate, lines 111-139: the creation call, then the to-many relations.
\* field.set() is the synchronous relation API called on the event-loop
\* thread, which the ORM refuses with SynchronousOnlyOperation.
AcreateInsert ==
    /\ spc = "creating"
    /\ LET arguments == CreateArguments(sdata)
           created == Instance(nextId, DictMerge(DefaultAttrs, arguments))
       IN  /\ CreateTypeError(arguments) \/ nextId <= MaxId
           /\ sargs' = arguments
           /\ IF CreateTypeError(arguments)
              THEN /\ SaveRaise("TypeError", "create")
                   /\ UNCHANGED <<db, nextId, sser, sinst, sresult>>
              ELSE /\ db' = [db EXCEPT ![nextId] = Row(created.attrs)]
                   /\ nextId' = nextId + 1
                   /\ sinst' = created
                   /\ IF DOMAIN ManyToMany(sdata) # {}
                      THEN /\ SaveRaise("SynchronousOnlyOperation", "m2m")
                           /\ UNCHANGED <<sser, sresult>>
                      ELSE SaveFinish(Returned(scls, "acreate", created))
    /\ UNCHANGED <<rel, scls, skw, spre, sdata, spending, sorder, safter,
                   sdispatch>>
    /\ UNCHANGED <<viewVars, validVars>>

\* aupdate, line 181: await instance.asave().  The save updates the row of
\* the instance's pk, or inserts it when no such row is left.  Line 186
\* then issues one aset per to-many field.
AupdateSave ==
    /\ spc = "saving"
    /\ db' = [db EXCEPT ![sinst.pk] = SavedRow(sinst)]
    /\ spending' = DOMAIN ManyToMany(sdata)
    /\ spc' = "gather"
    /\ UNCHANGED <<rel, nextId, sser, scls, skw, spre, sdata, sargs, sinst,
                   sorder, safter, sdispatch, sresult, sexc, sraisedAt, sret>>
    /\ UNCHANGED <<viewVars, validVars>>

\* aupdate, lines 186-187: one of the gathered aset coroutines completes.
\* asyncio.gather (return_exceptions left False) hands the first exception
\* of an awaitable to its awaiter at once and neither cancels nor awaits
\* the others: they run on after aupdate has raised, and their own
\* exceptions are dropped.
M2MSet(f) ==
    /\ spc = "gather" \/ GatherAbandoned(spc, sraisedAt)
    /\ f \in spending
    /\ spending' = spending \ {f}
    /\ IF AsetFails(db, AsetValue(sdata, f))
       THEN /\ IF spc = "gather"
               THEN SaveRaise("IntegrityError", "aset")
               ELSE UNCHANGED <<spc, sexc, sraisedAt, sret>>
            /\ UNCHANGED <<rel, sorder, safter>>
       ELSE /\ rel' = [rel EXCEPT ![sinst.pk][f] = AsetValue(sdata, f)]
            /\ sorder' = Append(sorder, f)
            /\ safter' = IF spc = "gather" THEN safter ELSE safter \cup {f}
            /\ UNCHANGED <<spc, sexc, sraisedAt, sret>>
    /\ UNCHANGED <<db, nextId, sser, scls, skw, spre, sdata, sargs,
                   sinst, sdispatch, sresult>>
    /\ UNCHANGED <<viewVars, validVars>>

\* aupdate, lines 187-189: the gather is over; aupdate returns the instance
\* and asave stores and checks it.
AupdateReturn ==
    /\ spc = "gather"
    /\ spending = {}
    /\ SaveFinish(Returned(scls, "aupdate", sinst))
    /\ UNCHANGED <<scls, skw, spre, sdata, sargs, sinst, spending, sorder,
                   safter, sdispatch>>
    /\ UNCHANGED <<tableVars, viewVars, validVars>>

\* The validated data a serializer can hold and the keyword arguments a
\* caller can pass.
SaveInputs ==
    {d \in Dicts(ScalarFields \cup ManyFields \cup NestedFields) : WellTyped(d)}

KwargsChoices ==
    {d \in Dicts({"sound", "commit"} \cup UnknownFields) : WellTyped(d)}

\* A serializer as is_valid leaves it after a successful validation.
Validated(instance, validated_data) ==
    [NewSerializer(instance, TRUE, EmptyDict, FALSE) EXCEPT
        !.has_vd = TRUE, !.vd = validated_data,
        !.has_errors = TRUE, !.errors = EmptyDict]

\* A handler with no request.
IdleRequest ==
    [op |-> "none", pc |-> "idle", data |-> EmptyDict, pk |-> 0,
     partial |-> FALSE, inst |-> NoneInstance,
     ser |-> NewSerializer(NoneInstance, FALSE, EmptyDict, FALSE),
     unawaited |-> {}, steps |-> <<>>, persisted |-> 0,
     status |-> 0, exc |-> "none", body |-> EmptyDict, items |-> {}]

InitTable ==
    /\ db = InitDb
    /\ rel = InitRel
    /\ nextId = InitRows + 1

InitViewsIdle ==
    /\ req = [t \in Tasks |-> IdleRequest]
    /\ deleted = {}

InitValidIdle ==
    /\ vser = NewSerializer(NoneInstance, FALSE, EmptyDict, FALSE)
    /\ vlog = <<>>
    /\ nRunValidation = 0
    /\ nFramework = 0

InitSaveIdle ==
    /\ sser = NewSerializer(NoneInstance, FALSE, EmptyDict, FALSE)
    /\ scls = "ModelSerializer"
    /\ skw = EmptyDict
    /\ spre = NoneInstance
    /\ spc = "idle"
    /\ sdata = EmptyDict
    /\ sargs = EmptyDict
    /\ sinst = NoneInstance
    /\ spending = {}
    /\ sorder = <<>>
    /\ safter = {}
    /\ sdispatch = NoDispatch
    /\ sresult = "pending"
    /\ sexc = "none"
    /\ sraisedAt = "none"
    /\ sret = NoneInstance

InitSave ==
    /\ InitTable
    /\ InitViewsIdle
    /\ InitValidIdle
    /\ \E inst \in {NoneInstance, Loaded(InitDb, 1)} :
          sser \in {Validated(inst, d) : d \in SaveInputs}
                   \cup {NewSerializer(inst, TRUE, EmptyDict, FALSE)}
    /\ scls \in SerializerClasses
    /\ skw \in KwargsChoices
    /\ spre = sser.instance
    /\ spc = "call"
    /\ sdata = EmptyDict
    /\ sargs = EmptyDict
    /\ sinst = NoneInstance
    /\ spending = {}
    /\ sorder = <<>>
    /\ safter = {}
    /\ sdispatch = NoDispatch
    /\ sresult = "pending"
    /\ sexc = "none"
    /\ sraisedAt = "none"
    /\ sret = NoneInstance

NextSave ==
    \/ AsaveCall
    \/ AcreateInsert
    \/ AupdateSave
    \/ \E f \in ManyFields : M2MSet(f)
    \/ AupdateReturn

SpecSave == InitSave /\ [][NextSave]_vars

\* ------------------------------------------------- Spec: the view mixins
\* The request bodies a client sends (tests/test_viewsets.py posts
\* name 'Wolf', sound 'Howl'; a body may leave fields out).
ViewInputs ==
    {d \in Dicts(ScalarFields) :
        /\ "name" \in DOMAIN d => d["name"] = "Wolf"
        /\ "sound" \in DOMAIN d => d["sound"] = "Howl"}

Operations ==
    {"create", "update", "partial_update", "destroy", "list", "retrieve"}

\* The methods the mixins give a view: what self.<name> finds there.
ViewMethods ==
    {"create", "perform_create", "get_success_headers", "list", "retrieve",
     "update", "perform_update", "partial_update", "destroy",
     "perform_destroy"}

\* The host view's get_object(), awaited by the mixins: the instance of
\* the row with the request's pk, or the not-found condition.
get_object(table, pk) ==
    IF table[pk].exists
    THEN [found |-> TRUE, inst |-> Loaded(table, pk)]
    ELSE [found |-> FALSE, inst |-> NoneInstance]

\* The serializer a list request builds over the queryset (many=True): it
\* is given no data=, and its instance is the lazy queryset.
QuerysetSerializer ==
    NewSerializer(Instance(0, EmptyDict), FALSE, EmptyDict, FALSE)

\* The rows the queryset of the view yields.
QuerysetItems(table) ==
    {Representation(Loaded(table, i)) : i \in {j \in Ids : table[j].exists}}

\* The handler of task t ends with a response.
Respond(t, r, status, body, items) ==
    req' = [req EXCEPT ![t] = [r EXCEPT !.pc = "done", !.status = status,
                                        !.body = body, !.items = items,
                                        !.steps = Append(r.steps, "respond")]]

\* The handler of task t ends with an exception the framework's exception
\* handler does not turn into a response.
Propagate(t, r, exc) ==
    req' = [req EXCEPT ![t] = [r EXCEPT !.pc = "done", !.exc = exc]]

\* The dispatcher hands task t a request; `partial` is the keyword an
\* update can be called with (update pops it, line 64, default False).
Receive(t, op, data, pk, partial) ==
    /\ req[t].pc = "idle"
    /\ req' = [req EXCEPT ![t] =
                 [IdleRequest EXCEPT !.op = op, !.pc = "start",
                     !.data = IF op \in {"create", "update", "partial_update"}
                              THEN data ELSE EmptyDict,
                     !.pk = IF op \in {"create", "list"} THEN 0 ELSE pk,
                     !.partial = (op = "update" /\ partial)]]
    /\ UNCHANGED <<deleted, tableVars, validVars, saveVars>>

\* perform_create / perform_update: await serializer.asave(), up to its
\* first suspension.  asave reads serializer.validated_data at once; were
\* it there, the request would go on through the asave steps of SpecSave.
PerformSave(t, r, ser) ==
    LET vd == validated_data_property(ser)
    IN  IF CommitRefused(EmptyDict) \/ vd.exc # "none"
        THEN Propagate(t, [r EXCEPT !.ser = ser], "AssertionError")
        ELSE req' = [req EXCEPT ![t] = [r EXCEPT !.ser = ser, !.pc = "asave",
                                        !.steps = Append(r.steps, "persist")]]

\* AsyncCreateModelMixin.create.  Line 20 calls the coroutine function
\* is_valid without await: that builds a coroutine object which is never
\* run, so nothing is validated; line 21 then awaits perform_create.
Create(t) ==
    /\ req[t].pc = "start"
    /\ req[t].op = "create"
    /\ LET ser == NewSerializer(NoneInstance, TRUE, req[t].data, FALSE)
           r == [req[t] EXCEPT !.unawaited = {"is_valid"}]
       IN  PerformSave(t, r, ser)
    /\ UNCHANGED <<deleted, tableVars, validVars, saveVars>>

\* AsyncUpdateModelMixin.update, line 65: instance = await get_object().
UpdateFetch(t) ==
    /\ req[t].pc = "start"
    /\ req[t].op = "update"
    /\ LET got == get_object(db, req[t].pk)
       IN  IF got.found
           THEN req' = [req EXCEPT ![t].pc = "fetched", ![t].inst = got.inst]
           ELSE Respond(t, req[t], 404, EmptyDict, {})
    /\ UNCHANGED <<deleted, tableVars, validVars, saveVars>>

\* AsyncUpdateModelMixin.update, lines 66-68: again is_valid is called
\* without await, then perform_update is awaited.
UpdateSave(t) ==
    /\ req[t].pc = "fetched"
    /\ req[t].op = "update"
    /\ LET ser == NewSerializer(req[t].inst, TRUE, req[t].data, req[t].partial)
           r == [req[t] EXCEPT !.unawaited = {"is_valid"}]
       IN  PerformSave(t, r, ser)
    /\ UNCHANGED <<deleted, tableVars, validVars, saveVars>>

\* AsyncUpdateModelMixin.partial_update, lines 81-82: the partial keyword is
\* set and self.aupdate is looked up on the view.  A view has `update`, not
\* `aupdate` (that name belongs to the serializer), so the lookup is an
\* AttributeError; were the name there, the request would go on as an
\* update with partial set.
PartialUpdate(t) ==
    /\ req[t].pc = "start"
    /\ req[t].op = "partial_update"
    /\ LET r == [req[t] EXCEPT !.partial = TRUE]
       IN  IF "aupdate" \in ViewMethods
           THEN req' = [req EXCEPT ![t] = [r EXCEPT !.op = "update"]]
           ELSE Propagate(t, r, "AttributeError")
    /\ UNCHANGED <<deleted, tableVars, validVars, saveVars>>

\* AsyncDestroyModelMixin.destroy, line 91: instance = await get_object().
DestroyFetch(t) ==
    /\ req[t].pc = "start"
    /\ req[t].op = "destroy"
    /\ LET got == get_object(db, req[t].pk)
       IN  IF got.found
           THEN req' = [req EXCEPT ![t].pc = "fetched", ![t].inst = got.inst,
                                   ![t].steps = <<"fetch">>]
           ELSE Respond(t, req[t], 404, EmptyDict, {})
    /\ UNCHANGED <<deleted, tableVars, validVars, saveVars>>

\* perform_destroy: await instance.adelete().  The row goes, with the
\* relation entries that name it.
DestroyDelete(t) ==
    /\ req[t].pc = "fetched"
    /\ req[t].op = "destroy"
    /\ db' = [db EXCEPT ![req[t].pk] = NoRow]
    /\ rel' = [i \in Ids |-> [f \in ManyFields |->
                  IF i = req[t].pk THEN {} ELSE rel[i][f] \ {req[t].pk}]]
    /\ req' = [req EXCEPT ![t].pc = "deleted",
                          ![t].steps = Append(req[t].steps, "delete")]
    /\ UNCHANGED <<nextId, deleted, validVars, saveVars>>

\* AsyncDestroyModelMixin.destroy, line 93: Response(status=204).
DestroyRespond(t) ==
    /\ req[t].pc = "deleted"
    /\ Respond(t, req[t], 204, EmptyDict, {})
    /\ deleted' = deleted \cup {req[t].pk}
    /\ UNCHANGED <<tableVars, validVars, saveVars>>

\* AsyncListModelMixin.list, lines 35-43.  The test view sets no paginator,
\* so paginate_queryset gives None; the serializer is built over the lazy
\* queryset and getattr(serializer, "data") is sent to a worker thread.
ListStart(t) ==
    /\ req[t].pc = "start"
    /\ req[t].op = "list"
    /\ req' = [req EXCEPT ![t].pc = "listing", ![t].ser = QuerysetSerializer]
    /\ UNCHANGED <<deleted, tableVars, validVars, saveVars>>

\* AsyncListModelMixin.list, lines 43-44: the data property is read in the
\* worker thread and the response is built from it.
ListData(t) ==
    /\ req[t].pc = "listing"
    /\ LET d == data_property(req[t].ser)
       IN  IF d.exc # "none"
           THEN Propagate(t, req[t], d.exc)
           ELSE Respond(t, req[t], 200, EmptyDict, QuerysetItems(db))
    /\ UNCHANGED <<deleted, tableVars, validVars, saveVars>>

\* AsyncRetrieveModelMixin.retrieve, line 53.
RetrieveFetch(t) ==
    /\ req[t].pc = "start"
    /\ req[t].op = "retrieve"
    /\ LET got == get_object(db, req[t].pk)
       IN  IF got.found
           THEN req' = [req EXCEPT ![t].pc = "fetched", ![t].inst = got.inst]
           ELSE Respond(t, req[t], 404, EmptyDict, {})
    /\ UNCHANGED <<deleted, tableVars, validVars, saveVars>>

\* AsyncRetrieveModelMixin.retrieve, lines 54-55: the serializer is built
\* over the instance alone and its data property is read.
RetrieveRespond(t) ==
    /\ req[t].pc = "fetched"
    /\ req[t].op = "retrieve"
    /\ LET ser == NewSerializer(req[t].inst, FALSE, EmptyDict, FALSE)
           d == data_property(ser)
           r == [req[t] EXCEPT !.ser = ser]
       IN  IF d.exc # "none"
           THEN Propagate(t, r, d.exc)
           ELSE Respond(t, r, 200, d.value, {})
    /\ UNCHANGED <<deleted, tableVars, validVars, saveVars>>

\* The response (or the exception) has left; the handler is free again.
Finish(t) ==
    /\ req[t].pc = "done"
    /\ req' = [req EXCEPT ![t] = IdleRequest]
    /\ UNCHANGED <<deleted, tableVars, validVars, saveVars>>

Init ==
    /\ InitTable
    /\ InitViewsIdle
    /\ InitValidIdle
    /\ InitSaveIdle

Next ==
    \/ \E t \in Tasks, op \in Operations, data \in ViewInputs, pk \in Ids,
          partial \in BOOLEAN :
          Receive(t, op, data, pk, partial)
    \/ \E t \in Tasks : Create(t)
    \/ \E t \in Tasks : UpdateFetch(t)
    \/ \E t \in Tasks : UpdateSave(t)
    \/ \E t \in Tasks : PartialUpdate(t)
    \/ \E t \in Tasks : DestroyFetch(t)
    \/ \E t \in Tasks : DestroyDelete(t)
    \/ \E t \in Tasks : DestroyRespond(t)
    \/ \E t \in Tasks : ListStart(t)
    \/ \E t \in Tasks : ListData(t)
    \/ \E t \in Tasks : RetrieveFetch(t)
    \/ \E t \in Tasks : RetrieveRespond(t)
    \/ \E t \in Tasks : Finish(t)

Spec == Init /\ [][Next]_vars

\* ------------------------------------------------------ properties: Spec
\* The request body names every required field.
InputComplete(data) == ScalarFields \subseteq DOMAIN data

\* The response body shows exactly the submitted values of the fields.
BodyShows(body, data) ==
    \A f \in DOMAIN data : f \in DOMAIN body /\ body[f] = data[f]

Finished(t, op) == req[t].op = op /\ req[t].pc = "done"

\* C1: a create request whose input passes validation goes validate ->
\* persist -> build headers -> respond, persists exactly one entity, and is
\* answered 201 with a body holding the submitted values and a non-null id.
C1_CreateResponds201 ==
    \A t \in Tasks :
        (Finished(t, "create") /\ InputComplete(req[t].data)) =>
            /\ req[t].steps = <<"validate", "persist", "headers", "respond">>
            /\ req[t].persisted = 1
            /\ req[t].status = 201
            /\ BodyShows(req[t].body, req[t].data)
            /\ "id" \in DOMAIN req[t].body
            /\ req[t].body["id"] # 0

\* C2: an update request on an existing entity with valid input is answered
\* 200 with a body showing the field values as they are after the save (the
\* submitted values, not those the entity had before).
C2_UpdateResponds200 ==
    \A t \in Tasks :
        (Finished(t, "update") /\ req[t].status # 404
            /\ InputComplete(req[t].data)) =>
              /\ req[t].status = 200
              /\ BodyShows(req[t].body, req[t].data)

\* C3: a create request whose input lacks a required field ends in the
\* validation error, answered 400 with a payload keyed by the missing
\* fields, and persists nothing.
C3_CreateMissingFieldIs400 ==
    \A t \in Tasks :
        (Finished(t, "create") /\ ~InputComplete(req[t].data)) =>
            /\ req[t].status = 400
            /\ DOMAIN req[t].body = ScalarFields \ DOMAIN req[t].data
            /\ req[t].persisted = 0

\* What C4 says of destroy alone: fetch -> delete -> respond, 204 with an
\* empty body, and the deleted row never comes back.
DestroyAnswers204 ==
    /\ \A t \in Tasks :
          (Finished(t, "destroy") /\ req[t].status # 404) =>
              /\ req[t].steps = <<"fetch", "delete", "respond">>
              /\ req[t].status = 204
              /\ req[t].body = EmptyDict
    /\ \A pk \in deleted : ~db[pk].exists

\* C4: a destroy request on an existing entity goes fetch -> delete ->
\* respond and is answered 204 with an empty body, and every list request
\* answered after that returns (status 200) a collection without the
\* deleted entity.
C4_DestroyThenListOmitsEntity ==
    /\ DestroyAnswers204
    /\ \A t \in Tasks :
          (Finished(t, "list") /\ deleted # {}) =>
              /\ req[t].status = 200
              /\ \A item \in req[t].items : item["id"] \notin deleted

\* The outcome of a finished request: status, exception and body.
RequestOutcome(r) == <<r.status, r.exc, r.body>>

\* C19: a partial_update request ends with a response and no exception,
\* 200 unless the object is not found, and its outcome is the outcome of
\* update called with partial = true on the same body and pk against the
\* same table.
C19_PartialUpdateIsUpdateWithPartial ==
    \A t \in Tasks :
        Finished(t, "partial_update") =>
            /\ req[t].exc = "none"
            /\ req[t].status \in {200, 404}
            /\ \A u \in Tasks :
                  (/\ Finished(u, "update")
                   /\ req[u].partial
                   /\ req[u].data = req[t].data
                   /\ req[u].pk = req[t].pk
                   /\ db = InitDb)
                      => RequestOutcome(req[u]) = RequestOutcome(req[t])

\* ------------------------------------- SpecValid: is_valid and data calls
\* With run_validation as written no await inside is_valid suspends, so a
\* call runs from its first line to its return or exception in one step.
LogEntry(op, t, raise_exception, r) ==
    [op |-> op, caller |-> t, raise_exception |-> raise_exception,
     before |-> vser, after |-> r.ser, exc |-> r.exc, detail |-> r.detail,
     ret |-> r.ret, entered |-> r.entered, fw |-> r.fw, cached |-> r.cached]

\* await serializer.is_valid(raise_exception=...) by caller t.
IsValidCall(t, raise_exception) ==
    /\ Len(vlog) < MaxCalls
    /\ LET r == is_valid(vser, raise_exception)
       IN  /\ vser' = r.ser
           /\ vlog' = Append(vlog, LogEntry("is_valid", t, raise_exception, r))
           /\ nRunValidation' = nRunValidation + r.entered
           /\ nFramework' = nFramework + r.fw
    /\ UNCHANGED <<tableVars, viewVars, saveVars>>

\* serializer.data read by caller t.
ReadData(t) ==
    /\ Len(vlog) < MaxCalls
    /\ LET d == data_property(vser)
           r == Outcome(vser, d.exc, d.value, FALSE, 0, 0, FALSE)
       IN  vlog' = Append(vlog, LogEntry("data", t, FALSE, r))
    /\ UNCHANGED <<vser, nRunValidation, nFramework>>
    /\ UNCHANGED <<tableVars, viewVars, saveVars>>

\* The serializer as its constructor leaves it: AnimalSerializer(data=d),
\* AnimalSerializer(animal, data=d, partial=...), AnimalSerializer(animal).
InitValid ==
    /\ InitTable
    /\ InitViewsIdle
    /\ InitSaveIdle
    /\ \E inst \in {NoneInstance, Loaded(InitDb, 1)}, partial \in BOOLEAN :
          vser \in {NewSerializer(inst, TRUE, d, partial) :
                        d \in {x \in Dicts(ScalarFields) : WellTyped(x)}}
                   \cup {NewSerializer(inst, FALSE, EmptyDict, partial)}
    /\ vlog = <<>>
    /\ nRunValidation = 0
    /\ nFramework = 0

NextValid ==
    \/ \E t \in Tasks, raise_exception \in BOOLEAN : IsValidCall(t, raise_exception)
    \/ \E t \in Tasks : ReadData(t)

SpecValid == InitValid /\ [][NextValid]_vars

\* ------------------------------------------------- properties: SpecValid
IsValidEntries == {i \in 1..Len(vlog) : vlog[i].op = "is_valid"}

\* The is_valid calls made on a serializer that has input data and no
\* validation result yet.
FirstValidations ==
    {i \in IsValidEntries : vlog[i].before.has_initial /\ ~vlog[i].before.has_vd}

C7_FailedValidationOutcome ==
    \A i \in FirstValidations :
        LET e == vlog[i]
            missing == MissingFields(e.before, e.before.initial_data)
        IN  missing # {} =>
              /\ e.after.has_errors
              /\ missing \subseteq DOMAIN e.after.errors
              /\ IF e.raise_exception
                 THEN e.exc = "ValidationError" /\ e.detail = e.after.errors
                 ELSE e.exc = "none" /\ e.ret = FALSE

\* C8: an is_valid call on a serializer not validated yet ends by returning
\* a boolean or by a ValidationError, after the framework's validation
\* routine has run once on initial_data.
C8_ValidationRunsFrameworkRoutine ==
    \A i \in FirstValidations :
        /\ vlog[i].exc \in {"none", "ValidationError"}
        /\ vlog[i].fw = 1

\* The validated data / the errors of serializer s hold at least one entry.
ValidatedPopulated(s) == s.has_vd /\ DOMAIN s.vd # {}

ErrorsPopulated(s) == s.has_errors /\ DOMAIN s.errors # {}

\* C16: an is_valid call on a serializer with input data and no validation
\* result yet completes (returns, or raises the ValidationError asked for)
\* and leaves exactly one of validated data and errors populated with at
\* least one entry: not both, and not neither.
C16_ValidatedDataXorErrors ==
    \A i \in FirstValidations :
        /\ vlog[i].exc \in {"none", "ValidationError"}
        /\ ValidatedPopulated(vlog[i].after) # ErrorsPopulated(vlog[i].after)

DataEntries == {j \in 1..Len(vlog) : vlog[j].op = "data"}

PriorityRepresentation(s) ==
    IF ErrorsPopulated(s) THEN get_initial(s)
    ELSE IF ~s.instance.isNone THEN Representation(s.instance)
    ELSE s.vd

\* C18: an is_valid call without raise_exception on a serializer with input
\* data and no validation result yet returns with a cached representation:
\* that of the instance when there is one and validation found no error,
\* else that of the validated data when validation found no error, else the
\* initial value; with errors it is always the initial value.
C18_CachedRepresentationPriority ==
    \A i \in FirstValidations :
        ~vlog[i].raise_exception =>
            /\ vlog[i].exc = "none"
            /\ vlog[i].after.has_data
            /\ vlog[i].after.data = PriorityRepresentation(vlog[i].after)

\* -------------------------------------------------- properties: SpecSave
\* The value asave's merge must give key k: the keyword override when there
\* is one, else the validated value.
ExpectedValue(k) == IF k \in DOMAIN skw THEN skw[k] ELSE sser.vd[k]

MergedKeys == (DOMAIN sser.vd) \cup (DOMAIN skw)

\* C9: every asave call that passes its entry checks (no commit keyword,
\* validated data present) hands the dispatched method the validated data
\* merged with the keyword overrides, an override winning over the validated
\* value of the same key, and calls exactly one of aupdate (the serializer
\* had an instance) and acreate (it had none); when asave returns, the
\* returned instance is serializer.instance and carries the merged values:
\* scalar values as attributes, to-many values as its relations.
C9_AsaveMergesAndDispatchesOnce ==
    /\ (spc # "call" /\ sraisedAt # "precondition") =>
          /\ sdispatch.acreate + sdispatch.aupdate = 1
          /\ (sdispatch.aupdate = 1) <=> ~spre.isNone
          /\ DOMAIN sdata = MergedKeys
          /\ \A k \in MergedKeys : sdata[k] = ExpectedValue(k)
    /\ spc = "returned" =>
          /\ sret = sser.instance
          /\ \A k \in MergedKeys \ ManyFields : sret.attrs[k] = ExpectedValue(k)
          /\ \A k \in MergedKeys \cap ManyFields :
                rel[sret.pk][k] = ExpectedValue(k)

\* C9 witness: asave returned from an update in which a keyword overrode a
\* different validated value and a to-many field was set.
C9_Witness ==
    /\ spc = "returned"
    /\ sdispatch = [acreate |-> 0, aupdate |-> 1]
    /\ "sound" \in (DOMAIN skw) \cap (DOMAIN sser.vd)
    /\ skw["sound"] # sser.vd["sound"]
    /\ sret.attrs["sound"] = skw["sound"]
    /\ "friends" \in DOMAIN sser.vd
    /\ rel[sret.pk]["friends"] # {}

\* C10: when asave returns, its return value and serializer.instance are
\* not None; when the create or update step hands back None, asave ends with
\* the AssertionError of its post-condition instead of returning.
C10_AsaveInstanceNotNone ==
    /\ spc = "returned" => ~sret.isNone /\ ~sser.instance.isNone
    /\ sresult = "none" =>
          /\ spc = "raised"
          /\ sexc = "AssertionError"
          /\ sraisedAt = "postcondition"

\* C10 witness: an update override handed back None and asave raised the
\* assertion.
C10_Witness ==
    /\ sresult = "none"
    /\ sdispatch.aupdate = 1
    /\ sexc = "AssertionError"
    /\ spc = "raised"

\* C11: in acreate, the keywords given to the creation call never hold a
\* to-many field; a relation changes only after the creation call has
\* completed and the created entity has a row of its own; when the creation
\* call fails, no relation is changed.
C11_AcreateRelationsAfterCreation ==
    /\ [](DOMAIN sargs \cap ManyFields = {})
    /\ [][(sdispatch.acreate = 1 /\ rel' # rel) =>
             /\ ~sinst.isNone
             /\ db[sinst.pk].exists
             /\ sraisedAt # "create"]_vars
    /\ [](sraisedAt = "create" => rel = InitRel)

\* C11 witness: acreate was given scalar and to-many fields, the creation
\* call got the scalar ones only and completed, and the relations were
\* reached after it.
C11_Witness ==
    /\ sdispatch.acreate = 1
    /\ DOMAIN sdata = {"name", "sound", "friends", "tags"}
    /\ DOMAIN sargs = {"name", "sound"}
    /\ ~sinst.isNone
    /\ db[sinst.pk].exists
    /\ sraisedAt = "m2m"

\* The base acreate has got the created entity back from the creation call
\* and has ended, by returning or by raising.
AcreateCompleted ==
    /\ scls = "ModelSerializer"
    /\ sdispatch.acreate = 1
    /\ ~sinst.isNone
    /\ spc \in {"returned", "raised"}

\* C12: when acreate has created an entity, it returns that entity, whose
\* scalar fields are the scalar subset of the validated input, and every
\* to-many field of the input is, at that moment, the value of the entity's
\* relation of that name.
C12_AcreateResultMatchesInput ==
    AcreateCompleted =>
        /\ spc = "returned"
        /\ sret = sinst
        /\ \A k \in (DOMAIN sdata) \cap ScalarFields :
              sinst.attrs[k] = sdata[k] /\ db[sinst.pk].attrs[k] = sdata[k]
        /\ \A k \in (DOMAIN sdata) \cap ManyFields :
              rel[sinst.pk][k] = sdata[k]

\* The row of the instance under update holds every scalar value of the
\* update.
UpdatePersisted ==
    \A k \in (DOMAIN sdata) \cap ScalarFields : db[spre.pk].attrs[k] = sdata[k]

\* C13: in aupdate, whenever a to-many update has been issued, and whenever
\* a relation of the entity differs from what it was before the call, the
\* entity's row already holds the scalar values of the update; a relation
\* changes only once the save has completed.
C13_AupdateRelationsAfterSave ==
    /\ [](sdispatch.aupdate = 1 =>
            /\ spending # {} => UpdatePersisted
            /\ rel[spre.pk] # InitRel[spre.pk] => UpdatePersisted)
    /\ [][(sdispatch.aupdate = 1 /\ rel' # rel) =>
             spc \notin {"call", "saving"} /\ UpdatePersisted]_vars

\* C13 witness: an update that changes a scalar value and two relations has
\* saved the row and completed one relation update, the other is pending.
C13_Witness ==
    /\ sdispatch.aupdate = 1
    /\ "name" \in DOMAIN sdata
    /\ sdata["name"] # InitDb[spre.pk].attrs["name"]
    /\ db[spre.pk].attrs["name"] = sdata["name"]
    /\ "friends" \in DOMAIN sdata
    /\ rel[spre.pk]["friends"] = sdata["friends"]
    /\ rel[spre.pk]["friends"] # {}
    /\ spending = {"tags"}

\* The to-many fields of the update, and those whose update has completed.
UpdateRelations == (DOMAIN sdata) \cap ManyFields

CompletedRelations == {sorder[i] : i \in 1..Len(sorder)}

\* C14: in aupdate the updates of all to-many fields are issued together
\* once the save is over: each is pending or completed, none twice and in
\* any order; aupdate returns only when none is pending, and then every
\* relation holds the value the validated data gives it, whatever the order
\* in which the updates completed.
C14_AupdateRelationsGathered ==
    sdispatch.aupdate = 1 =>
        /\ spc = "gather" =>
              /\ spending \cup CompletedRelations = UpdateRelations
              /\ spending \cap CompletedRelations = {}
              /\ Len(sorder) = Cardinality(CompletedRelations)
        /\ (spc = "returned" \/ sresult # "pending") =>
              /\ spending = {}
              /\ CompletedRelations = UpdateRelations
              /\ \A f \in UpdateRelations : rel[spre.pk][f] = sdata[f]

\* C14 witness: aupdate returned after two relation updates with different
\* values completed in the order tags, friends.
C14_Witness ==
    /\ sdispatch.aupdate = 1
    /\ spc = "returned"
    /\ sorder = <<"tags", "friends">>
    /\ sdata["tags"] # sdata["friends"]
    /\ rel[spre.pk]["tags"] = sdata["tags"]
    /\ rel[spre.pk]["friends"] = sdata["friends"]

\* C15: acreate and aupdate given validated data with a nested write fail
\* with the AssertionError of the nested-write check and have no effect:
\* the table, the relations and the key counter are as before the call, the
\* serializer's instance and its attributes are untouched, nothing was
\* handed to the creation call and no relation update was issued.
C15_NestedWriteFailsBeforeAnyEffect ==
    (DOMAIN sdata) \cap NestedFields # {} =>
        /\ sdispatch.acreate + sdispatch.aupdate = 1
        /\ spc = "raised"
        /\ sexc = "AssertionError"
        /\ sraisedAt = "nested_write"
        /\ db = InitDb /\ rel = InitRel /\ nextId = InitRows + 1
        /\ sser.instance = spre
        /\ sinst.isNone
        /\ sargs = EmptyDict
        /\ spending = {} /\ sorder = <<>>

\* C15 witness: aupdate was called for an existing instance with a nested
\* write next to a changed scalar value and a relation value, and raised.
C15_Witness ==
    /\ sdispatch.aupdate = 1
    /\ DOMAIN sdata = {"name", "friends", "profile"}
    /\ sdata["name"] # spre.attrs["name"]
    /\ sdata["friends"] # {}
    /\ sraisedAt = "nested_write"
    /\ sser.instance.attrs["name"] = spre.attrs["name"]

\* a and b are the same object (or both None), whatever its attributes.
SameObject(a, b) == a.isNone = b.isNone /\ a.pk = b.pk

\* C20 as stated: whenever asave has failed, serializer.instance is the
\* object it was before the call; a serializer that had an instance still
\* has it.
C20_FailedAsaveKeepsInstance ==
    spc = "raised" => SameObject(sser.instance, spre)

\* C20 amended: whenever asave has failed, serializer.instance is the
\* object it was before the call, unless the failure is the post-condition
\* assertion on the update path: then serializer.instance is None, the
\* result having been assigned before the assertion.  A failure before the
\* dispatched method has got past its nested-write check leaves the
\* instance's attributes untouched as well.
C20_FailedAsaveInstance ==
    spc = "raised" =>
        /\ IF sraisedAt = "postcondition" /\ ~spre.isNone
           THEN sser.instance.isNone
           ELSE SameObject(sser.instance, spre)
        /\ sraisedAt \in {"precondition", "nested_write"} => sser.instance = spre

\* C20 witness: asave failed its post-condition on the update path, after
\* the row was saved, and the serializer that held an instance holds None.
C20_Witness ==
    /\ spc = "raised"
    /\ sraisedAt = "postcondition"
    /\ sdispatch.aupdate = 1
    /\ ~spre.isNone
    /\ sser.instance.isNone
    /\ db[spre.pk].attrs # InitDb[spre.pk].attrs

\* aupdate has ended, by returning to asave or by raising.
AupdateTerminated ==
    /\ sdispatch.aupdate = 1
    /\ spc \in {"returned", "raised"}

\* C21: once aupdate has ended, normally or with an exception, none of the
\* relation updates it started is still pending, and none has changed a
\* relation after the end.
C21_NoRelationUpdateOutlivesAupdate ==
    AupdateTerminated => spending = {} /\ safter = {}
====
